---- MODULE Spec2Model ----
(***************************************************************************)
(* CanvasImageBrush (winrt/lib/brushes/CanvasImageBrush.cpp): a brush that *)
(* holds one of two native Direct2D brushes, an ID2D1BitmapBrush1 or an    *)
(* ID2D1ImageBrush, and migrates between them as the assigned image and    *)
(* the source rectangle change.                                            *)
(*                                                                         *)
(* Every public method is one action.  A method is translated as an        *)
(* operator from the object's fields (a record) to an outcome: the fields  *)
(* at the point the method returned or threw, the HRESULT the exception    *)
(* boundary reports, and the value handed back to the caller.              *)
(***************************************************************************)
EXTENDS Integers, FiniteSets, Sequences, TLC

----------------------------------------------------------------------------
(* Bounds of the model *)

\* Number of distinct CanvasBitmap objects a caller may assign.
NumBitmaps == 2
\* Number of distinct source rectangles a caller may assign.
NumRects == 2

----------------------------------------------------------------------------
(* Values *)

\* A null pointer / empty ComPtr / null IReference.
Null == [null |-> TRUE]

S_OK == "S_OK"
RO_E_CLOSED == "RO_E_CLOSED"
E_INVALIDARG == "E_INVALIDARG"
\* Any failure HRESULT thrown by the device or by IReference::get_Value.
E_FAIL == "E_FAIL"
\* Dereference of an empty ComPtr: undefined behaviour.
NULL_DEREFERENCE == "NULL_DEREFERENCE"
\* A debug assertion that does not hold.
ASSERTION_FAILED == "ASSERTION_FAILED"
\* The device refuses a resource that another device owns.
DEVICE_MISMATCH == "DEVICE_MISMATCH"

\* The owning device, as m_device holds it while the brush is open.
Device == [device |-> "ICanvasDevice"]
\* A device other than the brush's.
OtherDevice == [device |-> "another ICanvasDevice"]

\* CanvasEdgeBehavior / D2D1_EXTEND_MODE: Clamp, Wrap, Mirror.
CanvasEdgeBehavior == {0, 1, 2}
\* CanvasImageInterpolation / D2D1_INTERPOLATION_MODE: NearestNeighbor, Linear.
CanvasImageInterpolation == {0, 1}
\* Brush opacity, in percent.
Opacities == {50, 100}
\* 2-D affine transforms.
Transforms == {"identity", "scale2"}

\* ICanvasImage objects a caller can pass to put_Image.
\* Each names the device that owns it; an effect is owned by no device.
CanvasBitmaps == {[kind |-> "CanvasBitmap", id |-> i, device |-> Device] : i \in 1..NumBitmaps}
CanvasEffects == {[kind |-> "GraphicsEffect", id |-> 1, device |-> Null]}
CanvasCommandLists == {[kind |-> "CanvasCommandList", id |-> 1, device |-> Device]}
\* A CanvasBitmap of another device.
ForeignBitmaps == {[kind |-> "CanvasBitmap", id |-> 1, device |-> OtherDevice]}
CanvasImages == CanvasBitmaps \cup CanvasEffects \cup CanvasCommandLists \cup ForeignBitmaps

\* ID2D1Image objects the native brushes are bound to.
D2DBitmaps == {[d2dType |-> "ID2D1Bitmap1", id |-> i, device |-> Device] : i \in 1..NumBitmaps}
D2DImages == D2DBitmaps \cup {[d2dType |-> "ID2D1EffectOutput", id |-> 1, device |-> Null],
                              [d2dType |-> "ID2D1CommandList", id |-> 1, device |-> Device]}

\* Windows::Foundation::Rect values a caller can pass to put_SourceRectangle.
\* The i-th has its four components pairwise different.
Rects == {[X |-> i, Y |-> 2 * i + 1, Width |-> i + 3, Height |-> 3 * i + 2] : i \in 1..NumRects}

\* ToD2DRect: a Rect as the D2D1_RECT_F of its edges.
ToD2DRect(rect) ==
    [left |-> rect.X, top |-> rect.Y,
     right |-> rect.X + rect.Width, bottom |-> rect.Y + rect.Height]

\* FromD2DRect: a D2D1_RECT_F as the Rect of its origin and size.
FromD2DRect(r) ==
    [X |-> r.left, Y |-> r.top, Width |-> r.right - r.left, Height |-> r.bottom - r.top]

\* D2D1_RECT_F{}: the value-initialised rectangle.
DefaultD2DRect == [left |-> 0, top |-> 0, right |-> 0, bottom |-> 0]

D2DRects == {ToD2DRect(r) : r \in Rects}

\* What the collaborators do on one call: nothing fails, or the first call of
\* the named kind throws (the device resolving an image, the device creating
\* a native brush, IReference<Rect>::get_Value).
Envs == {"none", "GetD2DImage", "CreateBrush", "get_Value"}

\* ID2D1DeviceContext objects a caller can pass to GetD2DBrush.
DeviceContexts == {[dpi |-> 96]}

\* GetBrushFlags.
GetBrushFlags == SUBSET {"NoValidation", "AlwaysInsertDpiCompensation"}

----------------------------------------------------------------------------
(* Collaborators *)

\* MaybeAs<ICanvasBitmap>(image): non-null exactly for a CanvasBitmap.
IsCanvasBitmap(image) == image.kind = "CanvasBitmap"

\* MaybeAs<IGraphicsEffect>(image): non-null exactly for an effect.
IsGraphicsEffect(image) == image.kind = "GraphicsEffect"

\* ICanvasBitmapInternal::GetD2DBitmap: the ID2D1Bitmap1 a CanvasBitmap wraps.
GetD2DBitmap(bitmap) ==
    [d2dType |-> "ID2D1Bitmap1", id |-> bitmap.id, device |-> bitmap.device]

\* ICanvasDeviceInternal::GetD2DImage validates that the device owns the
\* image: TRUE when it throws.
Device_GetD2DImageThrows(b, image) == image.device \notin {Null, b.m_device}

\* ICanvasDeviceInternal::GetD2DImage: the native renderable form of an image.
Device_GetD2DImage(image) ==
    CASE image.kind = "CanvasBitmap" -> GetD2DBitmap(image)
      [] image.kind = "GraphicsEffect" ->
           [d2dType |-> "ID2D1EffectOutput", id |-> image.id, device |-> image.device]
      [] OTHER -> [d2dType |-> "ID2D1CommandList", id |-> image.id, device |-> image.device]

\* ResourceManager::GetOrCreate<ICanvasImage>: the wrapper of a native image.
GetOrCreateCanvasImage(d2dImage) ==
    CASE d2dImage.d2dType = "ID2D1Bitmap1" ->
           [kind |-> "CanvasBitmap", id |-> d2dImage.id, device |-> d2dImage.device]
      [] d2dImage.d2dType = "ID2D1EffectOutput" ->
           [kind |-> "GraphicsEffect", id |-> d2dImage.id, device |-> d2dImage.device]
      [] OTHER -> [kind |-> "CanvasCommandList", id |-> d2dImage.id, device |-> d2dImage.device]

\* ComPtr<ID2D1Image>::As(&ID2D1Bitmap1): succeeds exactly for a bitmap.
IsD2DBitmap1(d2dImage) == d2dImage.d2dType = "ID2D1Bitmap1"

\* ICanvasDeviceInternal::CreateBitmapBrush: a new native bitmap brush with
\* Direct2D's default properties.
CreateBitmapBrush(bitmap) ==
    [iface |-> "ID2D1BitmapBrush1", bitmap |-> bitmap,
     extendModeX |-> 0, extendModeY |-> 0, interpolationMode |-> 1,
     opacity |-> 100, transform |-> "identity"]

\* ICanvasDeviceInternal::CreateImageBrush: a new native image brush with
\* Direct2D's default properties and an empty source rectangle.
CreateImageBrush(image) ==
    [iface |-> "ID2D1ImageBrush", image |-> image,
     extendModeX |-> 0, extendModeY |-> 0, interpolationMode |-> 1,
     opacity |-> 100, transform |-> "identity",
     sourceRectangle |-> DefaultD2DRect]

----------------------------------------------------------------------------
(* State *)

VARIABLES
    m_device,                 \* ClosablePtr<ICanvasDevice>: Device, or Null once closed
    m_d2dBitmapBrush,         \* ComPtr<ID2D1BitmapBrush1>: Null or the native brush
    m_d2dImageBrush,          \* ComPtr<ID2D1ImageBrush>: Null or the native brush
    m_isSourceRectSet,        \* bool
    m_effectNeedingDpiFixup,  \* ComPtr<ICanvasImageInternal>: Null or the effect
    resource,                 \* ResourceWrapper's resource: Null or the interface it wraps
    result,                   \* the last call: its name, arguments, HRESULT and value
    m_mutex,                  \* std::mutex: Null, or the thread that holds it
    pc,                       \* where each calling thread is inside its method
    lastPut                   \* per property, the value of the last put that returned
                              \* S_OK, and the representation the latest of them left

vars == <<m_device, m_d2dBitmapBrush, m_d2dImageBrush, m_isSourceRectSet,
          m_effectNeedingDpiFixup, resource, result, m_mutex, pc, lastPut>>

\* The fields of the object.
This ==
    [m_device |-> m_device,
     m_d2dBitmapBrush |-> m_d2dBitmapBrush,
     m_d2dImageBrush |-> m_d2dImageBrush,
     m_isSourceRectSet |-> m_isSourceRectSet,
     m_effectNeedingDpiFixup |-> m_effectNeedingDpiFixup,
     resource |-> resource]

\* Outcomes of a method body run on fields b.
Return(b, ret) == [b |-> b, hr |-> S_OK, ret |-> ret]
Throw(b, hr) == [b |-> b, hr |-> hr, ret |-> Null]

\* ClosablePtr::EnsureNotClosed throws RO_E_CLOSED: TRUE when it throws.
EnsureNotClosedThrows(b) == b.m_device = Null

\* ThrowIfClosed that never throws.
ThrowIfClosed_NeverThrows(b) == FALSE

\* CanvasImageBrush::ThrowIfClosed: TRUE when it throws.
ThrowIfClosed(b) == EnsureNotClosedThrows(b)

\* ResourceWrapper::SetResource.
SetResource(b, brush) == [b EXCEPT !.resource = [iface |-> brush.iface]]

----------------------------------------------------------------------------
(* Representation switches *)

\* The five properties a switch carries over, read from native brush `from`
\* and written to native brush `to`.
\* CopyBrushProperties without the interpolation mode.
CopyBrushProperties_NoInterpolation(to, from) ==
    [to EXCEPT !.extendModeX = from.extendModeX,
               !.extendModeY = from.extendModeY,
               !.opacity = from.opacity,
               !.transform = from.transform]

CopyBrushProperties(to, from) ==
    [to EXCEPT !.extendModeX = from.extendModeX,
               !.extendModeY = from.extendModeY,
               !.interpolationMode = from.interpolationMode,
               !.opacity = from.opacity,
               !.transform = from.transform]

\* SwitchToImageBrush without the release of the bitmap brush.
SwitchToImageBrush_KeepsBitmapBrush(b, image, env) ==
    IF b.m_d2dImageBrush # Null THEN Throw(b, ASSERTION_FAILED)
    ELSE IF EnsureNotClosedThrows(b) THEN Throw(b, RO_E_CLOSED)
    ELSE IF env = "CreateBrush" THEN Throw(b, E_FAIL)
    ELSE LET created == CreateImageBrush(image)
             brush == IF b.m_d2dBitmapBrush # Null
                        THEN [created EXCEPT !.extendModeX = b.m_d2dBitmapBrush.extendModeX,
                                             !.extendModeY = b.m_d2dBitmapBrush.extendModeY,
                                             !.interpolationMode = b.m_d2dBitmapBrush.interpolationMode,
                                             !.opacity = b.m_d2dBitmapBrush.opacity,
                                             !.transform = b.m_d2dBitmapBrush.transform]
                        ELSE created
             b1 == [b EXCEPT !.m_d2dImageBrush = brush]
         IN  Return(SetResource(b1, brush), Null)

SwitchToImageBrush(b, image, env) ==
    IF b.m_d2dImageBrush # Null THEN Throw(b, ASSERTION_FAILED)
    ELSE IF EnsureNotClosedThrows(b) THEN Throw(b, RO_E_CLOSED)
    ELSE IF env = "CreateBrush" THEN Throw(b, E_FAIL)
    ELSE LET created == CreateImageBrush(image)
             brush == IF b.m_d2dBitmapBrush # Null
                        THEN CopyBrushProperties(created, b.m_d2dBitmapBrush)
                        ELSE created
             b1 == [b EXCEPT !.m_d2dImageBrush = brush, !.m_d2dBitmapBrush = Null]
         IN  Return(SetResource(b1, brush), Null)

\* SwitchToBitmapBrush without the registration of the new brush.
SwitchToBitmapBrush_NoSetResource(b, bitmap, env) ==
    IF b.m_d2dBitmapBrush # Null \/ b.m_isSourceRectSet THEN Throw(b, ASSERTION_FAILED)
    ELSE IF EnsureNotClosedThrows(b) THEN Throw(b, RO_E_CLOSED)
    ELSE IF env = "CreateBrush" THEN Throw(b, E_FAIL)
    ELSE LET created == CreateBitmapBrush(bitmap)
             brush == IF b.m_d2dImageBrush # Null
                        THEN CopyBrushProperties(created, b.m_d2dImageBrush)
                        ELSE created
         IN  Return([b EXCEPT !.m_d2dBitmapBrush = brush, !.m_d2dImageBrush = Null], Null)

SwitchToBitmapBrush(b, bitmap, env) ==
    IF b.m_d2dBitmapBrush # Null \/ b.m_isSourceRectSet THEN Throw(b, ASSERTION_FAILED)
    ELSE IF EnsureNotClosedThrows(b) THEN Throw(b, RO_E_CLOSED)
    ELSE IF env = "CreateBrush" THEN Throw(b, E_FAIL)
    ELSE LET created == CreateBitmapBrush(bitmap)
             brush == IF b.m_d2dImageBrush # Null
                        THEN CopyBrushProperties(created, b.m_d2dImageBrush)
                        ELSE created
             b1 == [b EXCEPT !.m_d2dBitmapBrush = brush, !.m_d2dImageBrush = Null]
         IN  Return(SetResource(b1, brush), Null)

\* TrySwitchFromImageBrushToBitmapBrush that gives up when no image is bound.
TrySwitchFromImageBrushToBitmapBrush_NeedsImage(b, env) ==
    IF b.m_d2dImageBrush = Null \/ b.m_isSourceRectSet THEN Throw(b, ASSERTION_FAILED)
    ELSE LET targetImage == b.m_d2dImageBrush.image IN
         IF targetImage = Null \/ ~IsD2DBitmap1(targetImage)
           THEN Return(b, Null)
           ELSE SwitchToBitmapBrush(b, targetImage, env)

TrySwitchFromImageBrushToBitmapBrush(b, env) ==
    IF b.m_d2dImageBrush = Null \/ b.m_isSourceRectSet THEN Throw(b, ASSERTION_FAILED)
    ELSE LET targetImage == b.m_d2dImageBrush.image IN
         IF targetImage # Null /\ ~IsD2DBitmap1(targetImage)
           THEN Return(b, Null)
           ELSE SwitchToBitmapBrush(b, targetImage, env)

----------------------------------------------------------------------------
(* Image assignment *)

\* SetImage(nullptr) that also takes an image brush without a source
\* rectangle back to a bitmap brush.
SetImage_Null_Downgrades(b0) ==
    IF b0.m_d2dBitmapBrush # Null
      THEN Return([b0 EXCEPT !.m_d2dBitmapBrush.bitmap = Null], Null)
    ELSE IF b0.m_d2dImageBrush = Null THEN Throw(b0, NULL_DEREFERENCE)
    ELSE IF ~b0.m_isSourceRectSet THEN SwitchToBitmapBrush(b0, Null, "none")
    ELSE Return([b0 EXCEPT !.m_d2dImageBrush.image = Null], Null)

\* SetImage(nullptr), after the pending fixup was reset: unbind the image of
\* the live native brush.
SetImage_Null(b0) ==
    IF b0.m_d2dBitmapBrush # Null
      THEN Return([b0 EXCEPT !.m_d2dBitmapBrush.bitmap = Null], Null)
    ELSE IF b0.m_d2dImageBrush = Null THEN Throw(b0, NULL_DEREFERENCE)
    ELSE Return([b0 EXCEPT !.m_d2dImageBrush.image = Null], Null)

\* SetImage of a CanvasBitmap that leaves an existing bitmap brush bound to
\* its old bitmap.
SetImage_UseBitmapBrush_NoRebind(b0, bitmap, env) ==
    LET d2dBitmap == GetD2DBitmap(bitmap) IN
    IF b0.m_d2dBitmapBrush # Null
      THEN Return(b0, Null)
      ELSE SwitchToBitmapBrush(b0, d2dBitmap, env)

\* SetImage of a CanvasBitmap while no source rectangle is set: use a bitmap brush.
SetImage_UseBitmapBrush(b0, bitmap, env) ==
    LET d2dBitmap == GetD2DBitmap(bitmap) IN
    IF b0.m_d2dBitmapBrush # Null
      THEN Return([b0 EXCEPT !.m_d2dBitmapBrush.bitmap = d2dBitmap], Null)
      ELSE SwitchToBitmapBrush(b0, d2dBitmap, env)

\* SetImage of any other image, or while a source rectangle is set: use an
\* image brush, and keep an effect for the DPI fixup of GetD2DBrush.
SetImage_UseImageBrush(b0, image, env) ==
    IF EnsureNotClosedThrows(b0) THEN Throw(b0, RO_E_CLOSED)
    ELSE IF Device_GetD2DImageThrows(b0, image) THEN Throw(b0, DEVICE_MISMATCH)
    ELSE IF env = "GetD2DImage" THEN Throw(b0, E_FAIL)
    ELSE LET d2dImage == Device_GetD2DImage(image)
             o == IF b0.m_d2dImageBrush # Null
                    THEN Return([b0 EXCEPT !.m_d2dImageBrush.image = d2dImage], Null)
                    ELSE SwitchToImageBrush(b0, d2dImage, env)
         IN  IF o.hr # S_OK THEN o
             ELSE IF IsGraphicsEffect(image)
               THEN Return([o.b EXCEPT !.m_effectNeedingDpiFixup = image], Null)
               ELSE o

SetImage(b, image, env) ==
    LET b0 == [b EXCEPT !.m_effectNeedingDpiFixup = Null] IN
    IF image = Null THEN SetImage_Null(b0)
    ELSE IF IsCanvasBitmap(image) /\ ~b0.m_isSourceRectSet
      THEN SetImage_UseBitmapBrush(b0, image, env)
      ELSE SetImage_UseImageBrush(b0, image, env)

----------------------------------------------------------------------------
(* Methods *)

GetD2DImage(b) ==
    IF b.m_d2dBitmapBrush # Null THEN Return(b, b.m_d2dBitmapBrush.bitmap)
    ELSE IF b.m_d2dImageBrush = Null THEN Throw(b, NULL_DEREFERENCE)
    ELSE Return(b, b.m_d2dImageBrush.image)

\* get_Image after m_device.EnsureNotClosed() passed: GetD2DImage, which
\* takes the lock, and the wrapping of what it returned.
get_Image_Checked(b) ==
    LET o == GetD2DImage(b) IN
    IF o.hr # S_OK \/ o.ret = Null THEN o
    ELSE Return(b, GetOrCreateCanvasImage(o.ret))

get_Image(b, valueOk) ==
    IF ~valueOk THEN Throw(b, E_INVALIDARG)
    ELSE IF EnsureNotClosedThrows(b) THEN Throw(b, RO_E_CLOSED)
    ELSE get_Image_Checked(b)

put_Image(b, value, env) ==
    IF ThrowIfClosed(b) THEN Throw(b, RO_E_CLOSED)
    ELSE SetImage(b, value, env)

\* get_ExtendX after the lock was taken and ThrowIfClosed passed.
get_ExtendX_Locked(b) ==
    IF b.m_d2dBitmapBrush # Null
      THEN Return(b, [value |-> b.m_d2dBitmapBrush.extendModeX])
    ELSE IF b.m_d2dImageBrush = Null THEN Throw(b, NULL_DEREFERENCE)
    ELSE Return(b, [value |-> b.m_d2dImageBrush.extendModeX])

get_ExtendX(b, valueOk) ==
    IF ~valueOk THEN Throw(b, E_INVALIDARG)
    ELSE IF ThrowIfClosed(b) THEN Throw(b, RO_E_CLOSED)
    ELSE get_ExtendX_Locked(b)

\* put_ExtendX that writes to the bitmap brush only.
put_ExtendX_OnlyBitmapBrush(b, value) ==
    IF b.m_d2dBitmapBrush # Null
      THEN Return([b EXCEPT !.m_d2dBitmapBrush.extendModeX = value], Null)
    ELSE IF b.m_d2dImageBrush = Null THEN Throw(b, NULL_DEREFERENCE)
    ELSE Return(b, Null)

\* put_ExtendX after the lock was taken and ThrowIfClosed passed.
put_ExtendX_Locked(b, value) ==
    IF b.m_d2dBitmapBrush # Null
      THEN Return([b EXCEPT !.m_d2dBitmapBrush.extendModeX = value], Null)
    ELSE IF b.m_d2dImageBrush = Null THEN Throw(b, NULL_DEREFERENCE)
    ELSE Return([b EXCEPT !.m_d2dImageBrush.extendModeX = value], Null)

put_ExtendX(b, value) ==
    IF ThrowIfClosed(b) THEN Throw(b, RO_E_CLOSED)
    ELSE put_ExtendX_Locked(b, value)

\* get_ExtendY after the lock was taken and ThrowIfClosed passed.
get_ExtendY_Locked(b) ==
    IF b.m_d2dBitmapBrush # Null
      THEN Return(b, [value |-> b.m_d2dBitmapBrush.extendModeY])
    ELSE IF b.m_d2dImageBrush = Null THEN Throw(b, NULL_DEREFERENCE)
    ELSE Return(b, [value |-> b.m_d2dImageBrush.extendModeY])

get_ExtendY(b, valueOk) ==
    IF ~valueOk THEN Throw(b, E_INVALIDARG)
    ELSE IF ThrowIfClosed(b) THEN Throw(b, RO_E_CLOSED)
    ELSE get_ExtendY_Locked(b)

\* put_ExtendY after the lock was taken and ThrowIfClosed passed.
put_ExtendY_Locked(b, value) ==
    IF b.m_d2dBitmapBrush # Null
      THEN Return([b EXCEPT !.m_d2dBitmapBrush.extendModeY = value], Null)
    ELSE IF b.m_d2dImageBrush = Null THEN Throw(b, NULL_DEREFERENCE)
    ELSE Return([b EXCEPT !.m_d2dImageBrush.extendModeY = value], Null)

put_ExtendY(b, value) ==
    IF ThrowIfClosed(b) THEN Throw(b, RO_E_CLOSED)
    ELSE put_ExtendY_Locked(b, value)

\* get_SourceRectangle after the lock was taken and ThrowIfClosed passed.
get_SourceRectangle_Locked(b) ==
    IF b.m_d2dImageBrush # Null /\ b.m_isSourceRectSet
      THEN Return(b, FromD2DRect(b.m_d2dImageBrush.sourceRectangle))
      ELSE Return(b, Null)

get_SourceRectangle(b, valueOk) ==
    IF ~valueOk THEN Throw(b, E_INVALIDARG)
    ELSE IF ThrowIfClosed(b) THEN Throw(b, RO_E_CLOSED)
    ELSE get_SourceRectangle_Locked(b)

\* The rectangle a non-null IReference<Rect> holds, as a D2D1_RECT_F.
GetD2DRectFromRectReference(value) == ToD2DRect(value)

\* put_SourceRectangle on a bitmap brush that records the rectangle as set
\* and stays a bitmap brush.
put_SourceRectangle_OnBitmapBrush_FlagOnly(b, value, env) ==
    IF b.m_isSourceRectSet THEN Throw(b, ASSERTION_FAILED)
    ELSE IF value # Null THEN
        IF env = "get_Value" THEN Throw(b, E_FAIL)
        ELSE Return([b EXCEPT !.m_isSourceRectSet = TRUE], Null)
    ELSE Return(b, Null)

\* put_SourceRectangle on a bitmap brush without the switch to an image brush.
put_SourceRectangle_OnBitmapBrush_NoSwitch(b, value, env) ==
    IF b.m_isSourceRectSet THEN Throw(b, ASSERTION_FAILED)
    ELSE IF value # Null THEN
        IF env = "get_Value" THEN Throw(b, E_FAIL) ELSE Return(b, Null)
    ELSE Return(b, Null)

\* put_SourceRectangle while the bitmap brush is populated.
put_SourceRectangle_OnBitmapBrush(b, value, env) ==
    IF b.m_isSourceRectSet THEN Throw(b, ASSERTION_FAILED)
    ELSE IF value # Null THEN
        LET o == SwitchToImageBrush(b, b.m_d2dBitmapBrush.bitmap, env) IN
        IF o.hr # S_OK THEN o
        ELSE IF env = "get_Value" THEN Throw(o.b, E_FAIL)
        ELSE Return([o.b EXCEPT
                       !.m_d2dImageBrush.sourceRectangle = GetD2DRectFromRectReference(value),
                       !.m_isSourceRectSet = TRUE], Null)
    ELSE Return(b, Null)

\* put_SourceRectangle on an image brush that unbinds the image when it
\* clears the rectangle.
put_SourceRectangle_OnImageBrush_Unbinds(b, value, env) ==
    IF value # Null THEN
        IF env = "get_Value" THEN Throw(b, E_FAIL)
        ELSE IF b.m_d2dImageBrush = Null THEN Throw(b, NULL_DEREFERENCE)
        ELSE Return([b EXCEPT
                       !.m_d2dImageBrush.sourceRectangle = GetD2DRectFromRectReference(value),
                       !.m_isSourceRectSet = TRUE], Null)
    ELSE IF b.m_d2dImageBrush = Null THEN Throw(b, NULL_DEREFERENCE)
    ELSE SwitchToBitmapBrush(
             [b EXCEPT !.m_d2dImageBrush.sourceRectangle = DefaultD2DRect,
                       !.m_isSourceRectSet = FALSE], Null, env)

\* put_SourceRectangle(null) lines 334-336: the image brush gets the default
\* rectangle and the flag is cleared.
put_SourceRectangle_ResetRectangle(b) ==
    IF b.m_d2dImageBrush = Null THEN Throw(b, NULL_DEREFERENCE)
    ELSE Return([b EXCEPT !.m_d2dImageBrush.sourceRectangle = DefaultD2DRect,
                          !.m_isSourceRectSet = FALSE], Null)

\* put_SourceRectangle while the bitmap brush is not populated.
put_SourceRectangle_OnImageBrush(b, value, env) ==
    IF value # Null THEN
        IF env = "get_Value" THEN Throw(b, E_FAIL)
        ELSE IF b.m_d2dImageBrush = Null THEN Throw(b, NULL_DEREFERENCE)
        ELSE Return([b EXCEPT
                       !.m_d2dImageBrush.sourceRectangle = GetD2DRectFromRectReference(value),
                       !.m_isSourceRectSet = TRUE], Null)
    ELSE LET o == put_SourceRectangle_ResetRectangle(b) IN
         IF o.hr # S_OK THEN o
         ELSE TrySwitchFromImageBrushToBitmapBrush(o.b, env)

\* put_SourceRectangle after the lock was taken and ThrowIfClosed passed.
put_SourceRectangle_Locked(b, value, env) ==
    IF b.m_d2dBitmapBrush # Null
      THEN put_SourceRectangle_OnBitmapBrush(b, value, env)
      ELSE put_SourceRectangle_OnImageBrush(b, value, env)

put_SourceRectangle(b, value, env) ==
    IF ThrowIfClosed(b) THEN Throw(b, RO_E_CLOSED)
    ELSE put_SourceRectangle_Locked(b, value, env)

\* get_Interpolation after the lock was taken and ThrowIfClosed passed.
get_Interpolation_Locked(b) ==
    IF b.m_d2dBitmapBrush # Null
      THEN Return(b, [value |-> b.m_d2dBitmapBrush.interpolationMode])
    ELSE IF b.m_d2dImageBrush = Null THEN Throw(b, NULL_DEREFERENCE)
    ELSE Return(b, [value |-> b.m_d2dImageBrush.interpolationMode])

get_Interpolation(b, valueOk) ==
    IF ~valueOk THEN Throw(b, E_INVALIDARG)
    ELSE IF ThrowIfClosed(b) THEN Throw(b, RO_E_CLOSED)
    ELSE get_Interpolation_Locked(b)

\* put_Interpolation after the lock was taken and ThrowIfClosed passed.
put_Interpolation_Locked(b, value) ==
    IF b.m_d2dBitmapBrush # Null
      THEN Return([b EXCEPT !.m_d2dBitmapBrush.interpolationMode = value], Null)
    ELSE IF b.m_d2dImageBrush = Null THEN Throw(b, NULL_DEREFERENCE)
    ELSE Return([b EXCEPT !.m_d2dImageBrush.interpolationMode = value], Null)

put_Interpolation(b, value) ==
    IF ThrowIfClosed(b) THEN Throw(b, RO_E_CLOSED)
    ELSE put_Interpolation_Locked(b, value)

\* CanvasBrush::Close: closes m_device.
CanvasBrush_Close(b) == [b EXCEPT !.m_device = Null]

\* ResourceWrapper::Close: releases the wrapped resource.
ResourceWrapper_Close(b) == [b EXCEPT !.resource = Null]

\* Close that releases the bitmap brush only.
Close_KeepsImageBrush(b) ==
    Return(ResourceWrapper_Close(
               [CanvasBrush_Close(b) EXCEPT !.m_d2dBitmapBrush = Null]), Null)

Close(b) ==
    Return(ResourceWrapper_Close(
               [CanvasBrush_Close(b) EXCEPT !.m_d2dBitmapBrush = Null,
                                            !.m_d2dImageBrush = Null]), Null)

\* GetD2DBrush that drops the fixup once the effect was realized.
GetD2DBrush_FixupOnce(b, deviceContext, flags) ==
    IF ThrowIfClosed(b) THEN Throw(b, RO_E_CLOSED)
    ELSE IF b.m_d2dBitmapBrush # Null
      THEN Return(b, [brush |-> b.m_d2dBitmapBrush, realized |-> Null])
    ELSE IF "NoValidation" \notin flags /\ ~b.m_isSourceRectSet
      THEN Throw(b, E_INVALIDARG)
    ELSE IF b.m_effectNeedingDpiFixup # Null /\ deviceContext # Null
      THEN Return([b EXCEPT !.m_effectNeedingDpiFixup = Null],
                  [brush |-> b.m_d2dImageBrush,
                   realized |-> [effect |-> b.m_effectNeedingDpiFixup,
                                 targetDpi |-> IF "AlwaysInsertDpiCompensation" \in flags
                                                 THEN [forced |-> TRUE]
                                                 ELSE [dpi |-> deviceContext.dpi]]])
    ELSE Return(b, [brush |-> b.m_d2dImageBrush, realized |-> Null])

\* GetD2DBrush that validates whatever the flags say.
GetD2DBrush_AlwaysValidates(b, deviceContext, flags) ==
    IF ThrowIfClosed(b) THEN Throw(b, RO_E_CLOSED)
    ELSE IF b.m_d2dBitmapBrush # Null
      THEN Return(b, [brush |-> b.m_d2dBitmapBrush, realized |-> Null])
    ELSE IF ~b.m_isSourceRectSet
      THEN Throw(b, E_INVALIDARG)
    ELSE LET realized ==
                 IF b.m_effectNeedingDpiFixup # Null /\ deviceContext # Null
                   THEN [effect |-> b.m_effectNeedingDpiFixup,
                         targetDpi |-> IF "AlwaysInsertDpiCompensation" \in flags
                                         THEN [forced |-> TRUE]
                                         ELSE [dpi |-> deviceContext.dpi]]
                   ELSE Null
         IN  Return(b, [brush |-> b.m_d2dImageBrush, realized |-> realized])

\* GetD2DBrush after the lock was taken and ThrowIfClosed passed.
GetD2DBrush_Locked(b, deviceContext, flags) ==
    IF b.m_d2dBitmapBrush # Null
      THEN Return(b, [brush |-> b.m_d2dBitmapBrush, realized |-> Null])
    ELSE IF "NoValidation" \notin flags /\ ~b.m_isSourceRectSet
      THEN Throw(b, E_INVALIDARG)
    ELSE LET realized ==
                 IF b.m_effectNeedingDpiFixup # Null /\ deviceContext # Null
                   THEN [effect |-> b.m_effectNeedingDpiFixup,
                         targetDpi |-> IF "AlwaysInsertDpiCompensation" \in flags
                                         THEN [forced |-> TRUE]
                                         ELSE [dpi |-> deviceContext.dpi]]
                   ELSE Null
         IN  Return(b, [brush |-> b.m_d2dImageBrush, realized |-> realized])

GetD2DBrush(b, deviceContext, flags) ==
    IF ThrowIfClosed(b) THEN Throw(b, RO_E_CLOSED)
    ELSE GetD2DBrush_Locked(b, deviceContext, flags)

\* GetResource after the lock was taken and ThrowIfClosed passed.
GetResource_Locked(b, deviceOk) ==
    IF ~deviceOk THEN Throw(b, E_INVALIDARG)
    ELSE IF b.m_d2dBitmapBrush # Null THEN Return(b, [brush |-> b.m_d2dBitmapBrush])
    ELSE IF b.m_d2dImageBrush = Null THEN Throw(b, NULL_DEREFERENCE)
    ELSE Return(b, [brush |-> b.m_d2dImageBrush])

GetResource(b, deviceOk, resourceOk) ==
    IF ~resourceOk THEN Throw(b, E_INVALIDARG)
    ELSE IF ThrowIfClosed(b) THEN Throw(b, RO_E_CLOSED)
    ELSE GetResource_Locked(b, deviceOk)

----------------------------------------------------------------------------
(* Construction *)

\* Native brushes that exist outside the wrapper and can be handed to it.
NativeBitmapBrushes ==
    {[iface |-> "ID2D1BitmapBrush1", bitmap |-> bmp,
      extendModeX |-> ex, extendModeY |-> ey, interpolationMode |-> ip,
      opacity |-> op, transform |-> tr] :
        bmp \in D2DBitmaps \cup {Null}, ex \in CanvasEdgeBehavior,
        ey \in CanvasEdgeBehavior, ip \in CanvasImageInterpolation,
        op \in Opacities, tr \in Transforms}

NativeImageBrushes ==
    {[iface |-> "ID2D1ImageBrush", image |-> img,
      extendModeX |-> ex, extendModeY |-> ey, interpolationMode |-> ip,
      opacity |-> op, transform |-> tr, sourceRectangle |-> sr] :
        img \in D2DImages \cup {Null}, ex \in CanvasEdgeBehavior,
        ey \in CanvasEdgeBehavior, ip \in CanvasImageInterpolation,
        op \in Opacities, tr \in Transforms,
        sr \in D2DRects \cup {DefaultD2DRect}}

\* CanvasImageBrush(ICanvasDevice*, ID2D1BitmapBrush1*)
CanvasImageBrush_FromBitmapBrush(bitmapBrush) ==
    [m_device |-> Device,
     m_d2dBitmapBrush |-> bitmapBrush,
     m_d2dImageBrush |-> Null,
     m_isSourceRectSet |-> FALSE,
     m_effectNeedingDpiFixup |-> Null,
     resource |-> [iface |-> bitmapBrush.iface]]

\* CanvasImageBrush(ICanvasDevice*, ID2D1ImageBrush*)
CanvasImageBrush_FromImageBrush(imageBrush) ==
    [m_device |-> Device,
     m_d2dBitmapBrush |-> Null,
     m_d2dImageBrush |-> imageBrush,
     m_isSourceRectSet |-> TRUE,
     m_effectNeedingDpiFixup |-> Null,
     resource |-> [iface |-> imageBrush.iface]]

\* The constructor without the empty bitmap brush for a null image.
CanvasImageBrush_FromImage_NoEmptyBrush(image, env) ==
    LET b == [m_device |-> Device,
              m_d2dBitmapBrush |-> Null,
              m_d2dImageBrush |-> Null,
              m_isSourceRectSet |-> FALSE,
              m_effectNeedingDpiFixup |-> Null,
              resource |-> Null]
    IN  IF image # Null THEN SetImage(b, image, env)
        ELSE Return(b, Null)

\* CanvasImageBrush(ICanvasDevice*, ICanvasImage*): the outcome of the
\* constructor body; the object exists only if it did not throw.
CanvasImageBrush_FromImage(image, env) ==
    LET b == [m_device |-> Device,
              m_d2dBitmapBrush |-> Null,
              m_d2dImageBrush |-> Null,
              m_isSourceRectSet |-> FALSE,
              m_effectNeedingDpiFixup |-> Null,
              resource |-> Null]
    IN  IF image # Null THEN SetImage(b, image, env)
        ELSE SwitchToBitmapBrush(b, Null, env)

\* CanvasImageBrushFactory::Create / CreateWithImage: the brushes the factory
\* hands out.
CreateWithImage ==
    {o.b : o \in {p \in {CanvasImageBrush_FromImage(image, env) :
                              image \in CanvasImages \cup {Null}, env \in Envs} :
                     p.hr = S_OK}}

----------------------------------------------------------------------------
(* The state machine *)

\* Which native handles of b are populated.
Representation(b) ==
    CASE b.m_d2dBitmapBrush # Null /\ b.m_d2dImageBrush = Null -> "BitmapBrush"
      [] b.m_d2dBitmapBrush = Null /\ b.m_d2dImageBrush # Null -> "ImageBrush"
      [] b.m_d2dBitmapBrush # Null /\ b.m_d2dImageBrush # Null -> "both"
      [] OTHER -> "none"

\* What a call remembers of the object it was made on.
Pre(b) == [representation |-> Representation(b), isSourceRectSet |-> b.m_isSourceRectSet]

Constructed(b, how, arg) ==
    /\ m_device = b.m_device
    /\ m_d2dBitmapBrush = b.m_d2dBitmapBrush
    /\ m_d2dImageBrush = b.m_d2dImageBrush
    /\ m_isSourceRectSet = b.m_isSourceRectSet
    /\ m_effectNeedingDpiFixup = b.m_effectNeedingDpiFixup
    /\ resource = b.resource
    /\ result = [op |-> how, arg |-> arg, hr |-> S_OK, ret |-> Null, pre |-> Pre(b)]
    /\ m_mutex = Null
    /\ pc = [t \in {1, 2} |-> [at |-> "idle"]]
    /\ lastPut = [ExtendX |-> Null, ExtendY |-> Null, Interpolation |-> Null,
                  representation |-> "none"]

Init ==
    \/ \E image \in CanvasImages \cup {Null}, env \in Envs :
          LET o == CanvasImageBrush_FromImage(image, env) IN
          /\ o.hr = S_OK
          /\ Constructed(o.b, "CreateWithImage", [value |-> image, valid |-> TRUE])
    \/ \E n \in NativeBitmapBrushes :
          Constructed(CanvasImageBrush_FromBitmapBrush(n), "CanvasImageBrush", [valid |-> TRUE])
    \/ \E n \in NativeImageBrushes :
          Constructed(CanvasImageBrush_FromImageBrush(n), "CanvasImageBrush", [valid |-> TRUE])

\* One call of method op with arguments arg whose body ended with outcome o:
\* the caller is alone, the mutex is free before and after the call.
Call(op, arg, o) ==
    /\ m_device' = o.b.m_device
    /\ m_d2dBitmapBrush' = o.b.m_d2dBitmapBrush
    /\ m_d2dImageBrush' = o.b.m_d2dImageBrush
    /\ m_isSourceRectSet' = o.b.m_isSourceRectSet
    /\ m_effectNeedingDpiFixup' = o.b.m_effectNeedingDpiFixup
    /\ resource' = o.b.resource
    /\ result' = [op |-> op, arg |-> arg, hr |-> o.hr, ret |-> o.ret, pre |-> Pre(This)]
    /\ UNCHANGED <<m_mutex, pc, lastPut>>

Call_get_Image ==
    \E valueOk \in BOOLEAN :
        Call("get_Image", [valid |-> valueOk], get_Image(This, valueOk))

Call_put_Image ==
    \E value \in CanvasImages \cup {Null}, env \in Envs :
        Call("put_Image", [value |-> value, valid |-> TRUE], put_Image(This, value, env))

Call_get_ExtendX ==
    \E valueOk \in BOOLEAN :
        Call("get_ExtendX", [valid |-> valueOk], get_ExtendX(This, valueOk))

Call_put_ExtendX ==
    \E value \in CanvasEdgeBehavior :
        Call("put_ExtendX", [value |-> value, valid |-> TRUE], put_ExtendX(This, value))

Call_get_ExtendY ==
    \E valueOk \in BOOLEAN :
        Call("get_ExtendY", [valid |-> valueOk], get_ExtendY(This, valueOk))

Call_put_ExtendY ==
    \E value \in CanvasEdgeBehavior :
        Call("put_ExtendY", [value |-> value, valid |-> TRUE], put_ExtendY(This, value))

Call_get_SourceRectangle ==
    \E valueOk \in BOOLEAN :
        Call("get_SourceRectangle", [valid |-> valueOk], get_SourceRectangle(This, valueOk))

Call_put_SourceRectangle ==
    \E value \in Rects \cup {Null}, env \in Envs :
        Call("put_SourceRectangle", [value |-> value, valid |-> TRUE],
             put_SourceRectangle(This, value, env))

Call_get_Interpolation ==
    \E valueOk \in BOOLEAN :
        Call("get_Interpolation", [valid |-> valueOk], get_Interpolation(This, valueOk))

Call_put_Interpolation ==
    \E value \in CanvasImageInterpolation :
        Call("put_Interpolation", [value |-> value, valid |-> TRUE],
             put_Interpolation(This, value))

Call_Close == Call("Close", [valid |-> TRUE], Close(This))

Call_GetD2DBrush ==
    \E deviceContext \in DeviceContexts \cup {Null}, flags \in GetBrushFlags :
        Call("GetD2DBrush", [deviceContext |-> deviceContext, flags |-> flags, valid |-> TRUE],
             GetD2DBrush(This, deviceContext, flags))

Call_GetResource ==
    \E deviceOk \in BOOLEAN, resourceOk \in BOOLEAN :
        Call("GetResource", [valid |-> deviceOk /\ resourceOk],
             GetResource(This, deviceOk, resourceOk))

Next ==
    \/ Call_get_Image
    \/ Call_put_Image
    \/ Call_get_ExtendX
    \/ Call_put_ExtendX
    \/ Call_get_ExtendY
    \/ Call_put_ExtendY
    \/ Call_get_SourceRectangle
    \/ Call_put_SourceRectangle
    \/ Call_get_Interpolation
    \/ Call_put_Interpolation
    \/ Call_Close
    \/ Call_GetD2DBrush
    \/ Call_GetResource

Spec == Init /\ [][Next]_vars

----------------------------------------------------------------------------
(* Concurrent callers *)

\* Threads that call methods of one brush.
Threads == {1, 2}

\* A thread that is inside no method.
Idle == [at |-> "idle"]

\* What concurrent callers pass.
ConcImages == {image \in CanvasBitmaps : image.id = 1} \cup CanvasEffects \cup {Null}
ConcRects == {rect \in Rects : rect.X = 1} \cup {Null}
ConcEdgeBehaviors == {value \in CanvasEdgeBehavior : value <= 1}
ConcContexts == DeviceContexts
ConcFlags == {{"NoValidation"}}

\* Methods whose body is: Lock lock(m_mutex); ThrowIfClosed(); ...
LockedMethods ==
    {"put_Image", "get_ExtendX", "put_ExtendX", "get_ExtendY", "put_ExtendY",
     "get_SourceRectangle", "put_SourceRectangle", "get_Interpolation",
     "put_Interpolation", "GetD2DBrush", "GetResource"}

\* The calls of a locked method: arguments and the outcome of the body that
\* follows ThrowIfClosed, run on fields b.
LockedCalls(b, op) ==
    CASE op = "put_Image" ->
           {[arg |-> [value |-> v, valid |-> TRUE], o |-> SetImage(b, v, "none")] :
               v \in ConcImages}
      [] op = "get_ExtendX" -> {[arg |-> [valid |-> TRUE], o |-> get_ExtendX_Locked(b)]}
      [] op = "put_ExtendX" ->
           {[arg |-> [value |-> v, valid |-> TRUE], o |-> put_ExtendX_Locked(b, v)] :
               v \in ConcEdgeBehaviors}
      [] op = "get_ExtendY" -> {[arg |-> [valid |-> TRUE], o |-> get_ExtendY_Locked(b)]}
      [] op = "put_ExtendY" ->
           {[arg |-> [value |-> v, valid |-> TRUE], o |-> put_ExtendY_Locked(b, v)] :
               v \in ConcEdgeBehaviors}
      [] op = "get_SourceRectangle" ->
           {[arg |-> [valid |-> TRUE], o |-> get_SourceRectangle_Locked(b)]}
      [] op = "put_SourceRectangle" ->
           {[arg |-> [value |-> v, valid |-> TRUE],
             o |-> put_SourceRectangle_Locked(b, v, "none")] : v \in ConcRects}
      [] op = "get_Interpolation" ->
           {[arg |-> [valid |-> TRUE], o |-> get_Interpolation_Locked(b)]}
      [] op = "put_Interpolation" ->
           {[arg |-> [value |-> v, valid |-> TRUE], o |-> put_Interpolation_Locked(b, v)] :
               v \in CanvasImageInterpolation}
      [] op = "GetD2DBrush" ->
           {[arg |-> [deviceContext |-> dc, flags |-> f, valid |-> TRUE],
             o |-> GetD2DBrush_Locked(b, dc, f)] : dc \in ConcContexts, f \in ConcFlags}
      [] op = "GetResource" ->
           {[arg |-> [valid |-> TRUE], o |-> GetResource_Locked(b, TRUE)]}

\* The property a put method writes, for the puts C12 is about.
PutProperty(op) ==
    CASE op = "put_ExtendX" -> "ExtendX"
      [] op = "put_ExtendY" -> "ExtendY"
      [] op = "put_Interpolation" -> "Interpolation"
      [] OTHER -> "none"

\* The fields after a step of a method body.
Fields(b) ==
    /\ m_device' = b.m_device
    /\ m_d2dBitmapBrush' = b.m_d2dBitmapBrush
    /\ m_d2dImageBrush' = b.m_d2dImageBrush
    /\ m_isSourceRectSet' = b.m_isSourceRectSet
    /\ m_effectNeedingDpiFixup' = b.m_effectNeedingDpiFixup
    /\ resource' = b.resource

\* Thread t returns from method op with outcome o.
Returned(t, op, arg, o) ==
    /\ result' = [op |-> op, arg |-> arg, hr |-> o.hr, ret |-> o.ret, pre |-> Pre(This)]
    /\ pc' = [pc EXCEPT ![t] = Idle]

InitConc ==
    \E image \in ConcImages :
        LET o == CanvasImageBrush_FromImage(image, "none") IN
        /\ o.hr = S_OK
        /\ Constructed(o.b, "CreateWithImage", [value |-> image, valid |-> TRUE])

\* Lock lock(m_mutex); ThrowIfClosed(); of a locked method: t waits for the
\* mutex, and leaves the method at once if the brush is closed.
Lock_ThrowIfClosed(t) ==
    /\ pc[t] = Idle
    /\ m_mutex = Null
    /\ \E op \in LockedMethods :
         IF ThrowIfClosed(This)
           THEN /\ Returned(t, op, [valid |-> TRUE], Throw(This, RO_E_CLOSED))
                /\ UNCHANGED <<m_device, m_d2dBitmapBrush, m_d2dImageBrush, m_isSourceRectSet,
                               m_effectNeedingDpiFixup, resource, m_mutex, lastPut>>
           ELSE /\ pc' = [pc EXCEPT ![t] = [at |-> "locked", op |-> op]]
                /\ m_mutex' = [owner |-> t]
                /\ UNCHANGED <<m_device, m_d2dBitmapBrush, m_d2dImageBrush, m_isSourceRectSet,
                               m_effectNeedingDpiFixup, resource, result, lastPut>>

\* put_SourceRectangle(null) reached lines 334-336 with the image brush
\* populated: the next step of the body is TrySwitchFromImageBrushToBitmapBrush.
ReachesTrySwitch(b, op, arg) ==
    /\ op = "put_SourceRectangle"
    /\ arg.value = Null
    /\ b.m_d2dBitmapBrush = Null
    /\ b.m_d2dImageBrush # Null

\* The body of a locked method up to its return, or up to the call of
\* TrySwitchFromImageBrushToBitmapBrush at line 340.
LockedBody(t) ==
    /\ pc[t].at = "locked"
    /\ \E c \in LockedCalls(This, pc[t].op) :
         IF ReachesTrySwitch(This, pc[t].op, c.arg)
           THEN /\ Fields(put_SourceRectangle_ResetRectangle(This).b)
                /\ pc' = [pc EXCEPT ![t] = [at |-> "TrySwitch", op |-> pc[t].op]]
                /\ UNCHANGED <<result, m_mutex, lastPut>>
           ELSE /\ Fields(c.o.b)
                /\ Returned(t, pc[t].op, c.arg, c.o)
                /\ m_mutex' = Null
                /\ lastPut' =
                     IF PutProperty(pc[t].op) # "none" /\ c.o.hr = S_OK
                       THEN [lastPut EXCEPT ![PutProperty(pc[t].op)] = [value |-> c.arg.value],
                                            !.representation = Representation(c.o.b)]
                       ELSE lastPut

\* TrySwitchFromImageBrushToBitmapBrush at the end of put_SourceRectangle(null).
LockedTrySwitch(t) ==
    /\ pc[t].at = "TrySwitch"
    /\ LET o == TrySwitchFromImageBrushToBitmapBrush(This, "none") IN
       /\ Fields(o.b)
       /\ Returned(t, pc[t].op, [value |-> Null, valid |-> TRUE], o)
    /\ m_mutex' = Null
    /\ UNCHANGED lastPut

\* get_Image line 148: m_device.EnsureNotClosed(), outside the lock.
get_Image_EnsureNotClosed(t) ==
    /\ pc[t] = Idle
    /\ IF EnsureNotClosedThrows(This)
         THEN Returned(t, "get_Image", [valid |-> TRUE], Throw(This, RO_E_CLOSED))
         ELSE /\ pc' = [pc EXCEPT ![t] = [at |-> "get_Image"]]
              /\ UNCHANGED result
    /\ UNCHANGED <<m_device, m_d2dBitmapBrush, m_d2dImageBrush, m_isSourceRectSet,
                   m_effectNeedingDpiFixup, resource, m_mutex, lastPut>>

\* get_Image lines 150-156: GetD2DImage under the lock, then the wrapper.
get_Image_GetD2DImage(t) ==
    /\ pc[t].at = "get_Image"
    /\ m_mutex = Null
    /\ Returned(t, "get_Image", [valid |-> TRUE], get_Image_Checked(This))
    /\ UNCHANGED <<m_device, m_d2dBitmapBrush, m_d2dImageBrush, m_isSourceRectSet,
                   m_effectNeedingDpiFixup, resource, m_mutex, lastPut>>

\* Close line 384, without the lock: CanvasBrush::Close().
Close_CanvasBrush_Close(t) ==
    /\ pc[t] = Idle
    /\ Fields(CanvasBrush_Close(This))
    /\ pc' = [pc EXCEPT ![t] = [at |-> "Close", next |-> "m_d2dBitmapBrush.Reset"]]
    /\ UNCHANGED <<result, m_mutex, lastPut>>

\* Close line 385: m_d2dBitmapBrush.Reset().
Close_ResetBitmapBrush(t) ==
    /\ pc[t] = [at |-> "Close", next |-> "m_d2dBitmapBrush.Reset"]
    /\ Fields([This EXCEPT !.m_d2dBitmapBrush = Null])
    /\ pc' = [pc EXCEPT ![t] = [at |-> "Close", next |-> "m_d2dImageBrush.Reset"]]
    /\ UNCHANGED <<result, m_mutex, lastPut>>

\* Close line 386: m_d2dImageBrush.Reset().
Close_ResetImageBrush(t) ==
    /\ pc[t] = [at |-> "Close", next |-> "m_d2dImageBrush.Reset"]
    /\ Fields([This EXCEPT !.m_d2dImageBrush = Null])
    /\ pc' = [pc EXCEPT ![t] = [at |-> "Close", next |-> "ResourceWrapper::Close"]]
    /\ UNCHANGED <<result, m_mutex, lastPut>>

\* Close line 387: return ResourceWrapper::Close().
Close_ResourceWrapper_Close(t) ==
    /\ pc[t] = [at |-> "Close", next |-> "ResourceWrapper::Close"]
    /\ Fields(ResourceWrapper_Close(This))
    /\ Returned(t, "Close", [valid |-> TRUE], Return(This, Null))
    /\ UNCHANGED <<m_mutex, lastPut>>

NextConc ==
    \E t \in Threads :
        \/ Lock_ThrowIfClosed(t)
        \/ LockedBody(t)
        \/ LockedTrySwitch(t)
        \/ get_Image_EnsureNotClosed(t)
        \/ get_Image_GetD2DImage(t)
        \/ Close_CanvasBrush_Close(t)
        \/ Close_ResetBitmapBrush(t)
        \/ Close_ResetImageBrush(t)
        \/ Close_ResourceWrapper_Close(t)

SpecConc == InitConc /\ [][NextConc]_vars

----------------------------------------------------------------------------
(* Observations *)

\* The brush has not been closed.
Open == m_device # Null

\* The native brush the accessors dispatch to.
LiveBrush(b) == IF b.m_d2dBitmapBrush # Null THEN b.m_d2dBitmapBrush ELSE b.m_d2dImageBrush

\* Extend modes, interpolation, opacity and transform of the live native brush.
Style(b) ==
    LET n == LiveBrush(b) IN
    [extendModeX |-> n.extendModeX, extendModeY |-> n.extendModeY,
     interpolationMode |-> n.interpolationMode,
     opacity |-> n.opacity, transform |-> n.transform]

\* The native image the live native brush is bound to, or Null.
BoundImage(b) ==
    IF b.m_d2dBitmapBrush # Null THEN b.m_d2dBitmapBrush.bitmap ELSE b.m_d2dImageBrush.image

\* The last call switched the representation.
Switched ==
    /\ result.pre.representation \in {"BitmapBrush", "ImageBrush"}
    /\ Representation(This) \in {"BitmapBrush", "ImageBrush"}
    /\ result.pre.representation # Representation(This)

----------------------------------------------------------------------------
(* Claims *)

\* C1: on a brush that has not been closed, after construction and after
\* every call, exactly one of m_d2dBitmapBrush and m_d2dImageBrush is
\* populated: never both, never neither.
C1_ExactlyOneHandle ==
    Open => Representation(This) \in {"BitmapBrush", "ImageBrush"}

\* A put_Image or put_SourceRectangle call has just switched the representation.
C1_Witness ==
    /\ Open
    /\ result.op \in {"put_Image", "put_SourceRectangle"}
    /\ Switched

\* C2 as stated: in every reachable state, m_isSourceRectSet implies that the
\* representation is the image brush.
C2_FlagImpliesImageBrush_EveryState ==
    m_isSourceRectSet => Representation(This) = "ImageBrush"

\* C2 as amended: in every reachable state of a brush that has not been
\* closed, m_isSourceRectSet implies that the representation is the image
\* brush; and in every state where the representation is the bitmap brush the
\* flag is false and get_SourceRectangle returns a null reference.
C2_FlagImpliesImageBrush ==
    /\ (Open /\ m_isSourceRectSet) => Representation(This) = "ImageBrush"
    /\ Representation(This) = "BitmapBrush" =>
          /\ ~m_isSourceRectSet
          /\ get_SourceRectangle(This, TRUE) = Return(This, Null)

\* A source rectangle was set on a bitmap brush, which is now an image brush
\* with the flag set.
C2_Witness ==
    /\ Open
    /\ result.op = "put_SourceRectangle"
    /\ result.hr = S_OK
    /\ result.pre.representation = "BitmapBrush"
    /\ m_isSourceRectSet

\* C3: a call that switches the representation, in either direction, leaves
\* extend modes, interpolation, opacity and transform of the new native brush
\* equal to those of the old one, and get_ExtendX / get_ExtendY /
\* get_Interpolation return the live brush's values.
C3_SwitchPreservesStyle ==
    [][/\ (/\ Representation(This) \in {"BitmapBrush", "ImageBrush"}
           /\ Representation(This)' \in {"BitmapBrush", "ImageBrush"}
           /\ Representation(This)' # Representation(This))
          => Style(This)' = Style(This)
       /\ (Open' /\ result'.hr = S_OK) =>
            /\ result'.op = "get_ExtendX" =>
                  result'.ret = [value |-> Style(This)'.extendModeX]
            /\ result'.op = "get_ExtendY" =>
                  result'.ret = [value |-> Style(This)'.extendModeY]
            /\ result'.op = "get_Interpolation" =>
                  result'.ret = [value |-> Style(This)'.interpolationMode]]_vars

\* A bitmap brush with Wrap, Mirror, NearestNeighbor, half opacity and a
\* scaling transform was switched to an image brush by put_Image.
C3_Witness ==
    /\ result.op = "put_Image"
    /\ result.hr = S_OK
    /\ Switched
    /\ Representation(This) = "ImageBrush"
    /\ Style(This) = [extendModeX |-> 1, extendModeY |-> 2, interpolationMode |-> 0,
                       opacity |-> 50, transform |-> "scale2"]

\* C4: a put_SourceRectangle call that succeeds with a non-null rectangle r
\* ends with the image brush populated, m_isSourceRectSet true and
\* get_SourceRectangle returning r, whichever representation it started from.
C4_PutRectangleSetsIt ==
    (/\ result.op = "put_SourceRectangle"
     /\ result.hr = S_OK
     /\ result.arg.value # Null)
    => /\ Representation(This) = "ImageBrush"
       /\ m_isSourceRectSet
       /\ get_SourceRectangle(This, TRUE) = Return(This, result.arg.value)

\* put_SourceRectangle of a rectangle succeeded on a bitmap brush.
C4_Witness ==
    /\ result.op = "put_SourceRectangle"
    /\ result.hr = S_OK
    /\ result.arg.value # Null
    /\ result.pre.representation = "BitmapBrush"

\* C5: put_SourceRectangle(null) on an image brush leaves m_isSourceRectSet
\* false and get_SourceRectangle returning a null reference; a call that
\* succeeds ends as a bitmap brush exactly when the image that was bound is an
\* ID2D1Bitmap1 or null, and an image brush bound to anything else stays an
\* image brush.
C5_ClearRectangleDowngrades ==
    [][(/\ Open
        /\ Representation(This) = "ImageBrush"
        /\ result'.op = "put_SourceRectangle"
        /\ result'.arg.value = Null)
       => /\ ~m_isSourceRectSet'
          /\ get_SourceRectangle(This, TRUE)'.hr = S_OK
          /\ get_SourceRectangle(This, TRUE)'.ret = Null
          /\ result'.hr = S_OK =>
                (Representation(This)' = "BitmapBrush"
                   <=> (BoundImage(This) = Null \/ IsD2DBitmap1(BoundImage(This))))
          /\ (BoundImage(This) # Null /\ ~IsD2DBitmap1(BoundImage(This))) =>
                /\ result'.hr = S_OK
                /\ Representation(This)' = "ImageBrush"]_vars

\* put_SourceRectangle(null) took an image brush that had a source rectangle
\* and no image bound back to a bitmap brush.
C5_Witness ==
    /\ result.op = "put_SourceRectangle"
    /\ result.hr = S_OK
    /\ result.arg.value = Null
    /\ result.pre.representation = "ImageBrush"
    /\ result.pre.isSourceRectSet
    /\ Representation(This) = "BitmapBrush"
    /\ BoundImage(This) = Null

\* C6: GetD2DBrush on an open image brush without a source rectangle throws
\* E_INVALIDARG (ImageBrushRequiresSourceRectangle) unless NoValidation is
\* passed, and then returns the image brush; on an open bitmap brush it
\* returns the bitmap brush whatever the flags.
C6_GetD2DBrushValidation ==
    (Open /\ result.op = "GetD2DBrush") =>
       /\ (Representation(This) = "ImageBrush" /\ ~m_isSourceRectSet) =>
             IF "NoValidation" \in result.arg.flags
               THEN result.hr = S_OK /\ result.ret.brush = m_d2dImageBrush
               ELSE result.hr = E_INVALIDARG
       /\ Representation(This) = "BitmapBrush" =>
             result.hr = S_OK /\ result.ret.brush = m_d2dBitmapBrush

\* GetD2DBrush with NoValidation returned an image brush that has no source
\* rectangle.
C6_Witness ==
    /\ Open
    /\ result.op = "GetD2DBrush"
    /\ Representation(This) = "ImageBrush"
    /\ ~m_isSourceRectSet
    /\ "NoValidation" \in result.arg.flags
    /\ result.hr = S_OK

\* The methods C7 names.
Accessors ==
    {"get_Image", "put_Image", "get_ExtendX", "put_ExtendX", "get_ExtendY", "put_ExtendY",
     "get_Interpolation", "put_Interpolation", "get_SourceRectangle", "put_SourceRectangle",
     "GetD2DBrush", "GetResource"}

\* C7: once Close has completed, every accessor called with valid arguments
\* fails with RO_E_CLOSED, and both native handles stay released.
C7_UseAfterClose ==
    ~Open =>
       /\ (result.op \in Accessors /\ result.arg.valid) => result.hr = RO_E_CLOSED
       /\ Representation(This) = "none"

\* get_Image was called on a closed brush.
C7_Witness ==
    /\ ~Open
    /\ result.op = "get_Image"
    /\ result.arg.valid
    /\ result.pre.representation = "none"

\* C8: put_Image(null) on an open brush succeeds and changes neither the
\* representation nor m_isSourceRectSet nor the style: it unbinds the image
\* of the live native brush and resets m_effectNeedingDpiFixup.
C8_NullImageKeepsRepresentation ==
    [][(Open /\ result'.op = "put_Image" /\ result'.arg.value = Null)
       => /\ result'.hr = S_OK
          /\ Representation(This)' = Representation(This)
          /\ m_isSourceRectSet' = m_isSourceRectSet
          /\ Style(This)' = Style(This)
          /\ BoundImage(This)' = Null
          /\ m_effectNeedingDpiFixup' = Null
          /\ resource' = resource]_vars

\* put_Image(null) left an image brush without a source rectangle an image brush.
C8_Witness ==
    /\ result.op = "put_Image"
    /\ result.arg.value = Null
    /\ result.hr = S_OK
    /\ result.pre.representation = "ImageBrush"
    /\ ~result.pre.isSourceRectSet
    /\ Representation(This) = "ImageBrush"

\* C9: after a put_Image that succeeds with a non-null image, the bitmap
\* brush is populated exactly when the image is a CanvasBitmap and
\* m_isSourceRectSet was false before the call, and the image brush otherwise;
\* the live brush is bound to the native form of the image, get_Image returns
\* the image, and m_isSourceRectSet is unchanged.
C9_PutImageChoosesRepresentation ==
    [][(/\ result'.op = "put_Image"
        /\ result'.hr = S_OK
        /\ result'.arg.value # Null)
       => /\ Representation(This)' =
                IF IsCanvasBitmap(result'.arg.value) /\ ~m_isSourceRectSet
                  THEN "BitmapBrush" ELSE "ImageBrush"
          /\ BoundImage(This)' = Device_GetD2DImage(result'.arg.value)
          /\ get_Image(This, TRUE)' = Return(This', result'.arg.value)
          /\ m_isSourceRectSet' = m_isSourceRectSet]_vars

\* put_Image of a CanvasBitmap on a brush with a source rectangle succeeded.
C9_Witness ==
    /\ result.op = "put_Image"
    /\ result.hr = S_OK
    /\ result.arg.value \in CanvasBitmaps
    /\ result.pre.isSourceRectSet
    /\ Representation(This) = "ImageBrush"

\* C10: a call that fails leaves the fields of the brush as they were.
C10_FailedCallChangesNothing ==
    [][result'.hr # S_OK => This' = This]_vars

\* Thread t is inside a method body that reads or writes the native handles,
\* m_isSourceRectSet or m_effectNeedingDpiFixup.
InRepresentationState(t) == pc[t].at \in {"locked", "TrySwitch", "Close"}

\* Thread t passed the closed-check of its method and has its body ahead.
PassedClosedCheck(t) == pc[t].at \in {"locked", "TrySwitch", "get_Image"}

\* C11: m_mutex serializes every access to the representation state, Close
\* and get_Image included: no two threads are inside bodies that read or write
\* it at once, no thread that passed its closed-check has both handles empty
\* ahead of it, and no call dereferences an empty handle.
C11_LockSerializesRepresentation ==
    /\ \A t \in Threads, u \in Threads :
         t # u => ~(InRepresentationState(t) /\ InRepresentationState(u))
    /\ \A t \in Threads : PassedClosedCheck(t) => Representation(This) # "none"
    /\ result.hr # NULL_DEREFERENCE

\* The get methods of the properties C12 is about, with the property each reads.
GetProperty(op) ==
    CASE op = "get_ExtendX" -> "ExtendX"
      [] op = "get_ExtendY" -> "ExtendY"
      [] op = "get_Interpolation" -> "Interpolation"
      [] OTHER -> "none"

\* C12: under every interleaving of two threads, a get_ExtendX, get_ExtendY or
\* get_Interpolation that returns S_OK returns the value of the last put of
\* that property that returned S_OK, whatever put_Image and put_SourceRectangle
\* calls and switches completed in between.
C12_GetReturnsLastPut ==
    [][\A t \in Threads :
         (/\ pc[t].at = "locked"
          /\ GetProperty(pc[t].op) # "none"
          /\ pc'[t] = Idle
          /\ result'.hr = S_OK
          /\ lastPut[GetProperty(pc[t].op)] # Null)
         => result'.ret.value = lastPut[GetProperty(pc[t].op)].value]_vars

\* get_ExtendX returned the value put before the representation switched.
C12_Witness ==
    /\ result.op = "get_ExtendX"
    /\ result.hr = S_OK
    /\ lastPut.ExtendX # Null
    /\ result.ret.value = lastPut.ExtendX.value
    /\ result.ret.value # CreateBitmapBrush(Null).extendModeX
    /\ lastPut.representation = "BitmapBrush"
    /\ Representation(This) = "ImageBrush"

\* C19: under every interleaving of public calls with Close, no debug
\* assertion fails.
C19_NoAssertionFails == result.hr # ASSERTION_FAILED

\* C13: put_Image on an open brush with an image that another device owns
\* fails with the device-mismatch error and leaves the bound image as it was.
C13_ForeignImageRejected ==
    [][(/\ Open
        /\ result'.op = "put_Image"
        /\ result'.arg.value # Null
        /\ result'.arg.value.device = OtherDevice)
       => /\ result'.hr = DEVICE_MISMATCH
          /\ BoundImage(This)' = BoundImage(This)]_vars

\* The bound image of the live native brush is an effect's output.
BoundToEffect(b) ==
    /\ BoundImage(b) # Null
    /\ BoundImage(b).d2dType = "ID2D1EffectOutput"

\* C14: on an open brush, m_effectNeedingDpiFixup is set exactly when the
\* image bound to the brush is an effect.
C14_FixupIffEffect ==
    Open => (m_effectNeedingDpiFixup # Null <=> BoundToEffect(This))

\* What the code does keep: on an open brush, a pending fixup is a graphics
\* effect, the representation is the image brush and the brush is bound to
\* that effect; every put_Image call leaves the fixup set exactly when it
\* succeeded with a graphics effect (which is then the fixup) and cleared
\* otherwise; no other call on an open brush changes it.
FixupOnlyForBoundEffect ==
    /\ [](Open /\ m_effectNeedingDpiFixup # Null =>
            /\ IsGraphicsEffect(m_effectNeedingDpiFixup)
            /\ Representation(This) = "ImageBrush"
            /\ BoundImage(This) = Device_GetD2DImage(m_effectNeedingDpiFixup))
    /\ [][Open =>
            IF result'.op = "put_Image"
              THEN m_effectNeedingDpiFixup' =
                     IF /\ result'.hr = S_OK
                        /\ result'.arg.value # Null
                        /\ IsGraphicsEffect(result'.arg.value)
                       THEN result'.arg.value ELSE Null
              ELSE m_effectNeedingDpiFixup' = m_effectNeedingDpiFixup]_vars

\* C15: Close succeeds from every state and leaves the brush closed with both
\* native handles released; Close of a closed brush changes nothing.
C15_CloseIdempotent ==
    [][result'.op = "Close" =>
         /\ result'.hr = S_OK
         /\ ~Open'
         /\ Representation(This)' = "none"
         /\ resource' = Null
         /\ ~Open => This' = This]_vars

\* Close was called on a brush that was already closed.
C15_Witness ==
    /\ result.op = "Close"
    /\ result.hr = S_OK
    /\ result.pre.representation = "none"
    /\ ~Open

\* C16: a brush the factory creates with no image is an empty bitmap brush
\* (no image bound, m_isSourceRectSet false, no fixup pending); a brush it
\* creates with an image is in the state put_Image of that image leaves an
\* empty bitmap brush in.
C16_FactoryStart ==
    result.op = "CreateWithImage" =>
        IF result.arg.value = Null
          THEN /\ Open
               /\ Representation(This) = "BitmapBrush"
               /\ BoundImage(This) = Null
               /\ ~m_isSourceRectSet
               /\ m_effectNeedingDpiFixup = Null
               /\ resource = [iface |-> "ID2D1BitmapBrush1"]
          ELSE LET empty == [This EXCEPT
                                !.m_d2dBitmapBrush = CreateBitmapBrush(Null),
                                !.m_d2dImageBrush = Null,
                                !.m_isSourceRectSet = FALSE,
                                !.m_effectNeedingDpiFixup = Null,
                                !.resource = [iface |-> "ID2D1BitmapBrush1"]]
               IN  put_Image(empty, result.arg.value, "none") = Return(This, Null)

\* The factory created a brush with an effect as its image.
C16_Witness ==
    /\ result.op = "CreateWithImage"
    /\ result.arg.value \in CanvasEffects
    /\ Representation(This) = "ImageBrush"

\* The effect realization the last call made, or Null.
Realized ==
    IF result.op = "GetD2DBrush" /\ result.hr = S_OK THEN result.ret.realized ELSE Null

\* C17: GetD2DBrush on an open brush realizes the pending effect exactly when
\* the image brush is populated, validation did not fail, a fixup is pending
\* and a device context was passed; the target DPI is the forced value under
\* AlwaysInsertDpiCompensation and the context's DPI otherwise; the call
\* leaves the fixup pending.
C17_FixupAtResolve ==
    /\ []((Open /\ result.op = "GetD2DBrush") =>
            Realized =
              IF /\ Representation(This) = "ImageBrush"
                 /\ ("NoValidation" \in result.arg.flags \/ m_isSourceRectSet)
                 /\ m_effectNeedingDpiFixup # Null
                 /\ result.arg.deviceContext # Null
                THEN [effect |-> m_effectNeedingDpiFixup,
                      targetDpi |-> IF "AlwaysInsertDpiCompensation" \in result.arg.flags
                                      THEN [forced |-> TRUE]
                                      ELSE [dpi |-> result.arg.deviceContext.dpi]]
                ELSE Null)
    /\ [][result'.op = "GetD2DBrush" => This' = This]_vars

\* GetD2DBrush realized the pending effect at the forced DPI.
C17_Witness ==
    /\ Open
    /\ Realized # Null
    /\ Realized.targetDpi = [forced |-> TRUE]
    /\ m_effectNeedingDpiFixup # Null

\* C18: on an open brush the resource registered with ResourceWrapper is the
\* populated native handle, and GetD2DBrush and GetResource return that handle.
C18_ResourceIsLiveHandle ==
    Open =>
       /\ resource = [iface |-> LiveBrush(This).iface]
       /\ (result.op = "GetD2DBrush" /\ result.hr = S_OK) =>
             result.ret.brush = LiveBrush(This)
       /\ (result.op = "GetResource" /\ result.hr = S_OK) =>
             result.ret.brush = LiveBrush(This)

\* Clearing the source rectangle switched an image brush to a bitmap brush.
C18_Witness ==
    /\ Open
    /\ result.op = "put_SourceRectangle"
    /\ Switched
    /\ Representation(This) = "BitmapBrush"

\* C20: put_SourceRectangle on an open brush changes neither the image bound
\* to the brush nor the pending fixup, and get_Image returns after the call
\* what it returned before it.
C20_PutRectangleKeepsImage ==
    [][(Open /\ result'.op = "put_SourceRectangle") =>
         /\ BoundImage(This)' = BoundImage(This)
         /\ m_effectNeedingDpiFixup' = m_effectNeedingDpiFixup
         /\ get_Image(This, TRUE)'.hr = S_OK
         /\ get_Image(This, TRUE)'.ret = get_Image(This, TRUE).ret]_vars

\* Setting a source rectangle switched a bitmap brush bound to a bitmap.
C20_Witness ==
    /\ result.op = "put_SourceRectangle"
    /\ result.hr = S_OK
    /\ Switched
    /\ Representation(This) = "ImageBrush"
    /\ BoundImage(This) \in D2DBitmaps

\* No call dereferences an empty handle or fails a debug assertion.
NoUndefinedBehaviour == result.hr \notin {NULL_DEREFERENCE, ASSERTION_FAILED}

====
